---- MODULE Spec2Model ----
(***************************************************************************)
(* A state-machine model of WatermarkApp (src/watermark_app.py): the       *)
(* session fields set in __init__, and one action per handler              *)
(* (on_canvas_click, upload_image, apply_text_watermark,                   *)
(* add_logo_watermark/apply_logo_watermark, save_image,                    *)
(* choose_text_color).                                                     *)
(*                                                                         *)
(* Bitmaps are values: a bitmap is the file it was decoded from, its size, *)
(* and the sequence of marks drawn on it; two bitmaps are pixel-identical  *)
(* iff these agree.  Python floats are modelled as exact fractions.        *)
(* The operations are modelled as the functions the spec's external        *)
(* interface calls; the Tk widget tree (buttons, dialogs) is not state.    *)
(***************************************************************************)
EXTENDS Integers, Sequences, FiniteSets, TLC

VARIABLES original_image, preview_image, watermarked_image,
          scale_x, scale_y, last_click_x, last_click_y, text_color,
          loaded, lastOp

\* The session fields of WatermarkApp.
session == <<original_image, preview_image, watermarked_image,
             scale_x, scale_y, last_click_x, last_click_y, text_color>>

\* The session fields plus the two history variables (loaded: the bitmap the
\* most recent successful load established; lastOp: the last operation run).
vars == <<original_image, preview_image, watermarked_image,
          scale_x, scale_y, last_click_x, last_click_y, text_color,
          loaded, lastOp>>

----------------------------------------------------------------------------
\* Bounds of the model.

\* How many entries of SizeTable exist as decodable image files.
NumSizes == 2
\* How many entries of ClickTable the user may click.
NumClicks == 3

----------------------------------------------------------------------------
\* Program constants.

CanvasWidth == 600
CanvasHeight == 400
CanvasCentreX == 300
CanvasCentreY == 200
ClickPaddingX == 125
default_margin_x == 30
default_margin_y == 30
FallbackFontSize == 36
LogoWidthDivisor == 10

----------------------------------------------------------------------------
\* Integer helpers (Python's float arithmetic, done exactly).

Abs(n) == IF n < 0 THEN 0 - n ELSE n

Max(a, b) == IF a >= b THEN a ELSE b

RECURSIVE GCD(_, _)
GCD(a, b) == IF b = 0 THEN a ELSE GCD(b, a % b)

\* The float a / b, as a fraction in lowest terms.
Fraction(a, b) == [num |-> a \div GCD(a, b), den |-> b \div GCD(a, b)]

\* Python's int(n * f) for an integer n and a float f: truncation toward zero.
IntOfProduct(n, f) ==
    IF n >= 0 THEN (n * f.num) \div f.den
    ELSE 0 - (((0 - n) * f.num) \div f.den)

----------------------------------------------------------------------------
\* Bitmaps.

\* self.original_image = None, self.watermarked_image = None.
None == [file |-> 0, w |-> 0, h |-> 0, data |-> "none", marks |-> <<>>]

\* The pixels of a bitmap: what it was decoded from and what was drawn on it.
Pixels(img) == [file |-> img.file, w |-> img.w, h |-> img.h,
                data |-> img.data, marks |-> img.marks]

\* Image.copy(): a new bitmap object with the same pixels.
copy(img) == [file |-> img.file, w |-> img.w, h |-> img.h,
              data |-> img.data, marks |-> img.marks]

----------------------------------------------------------------------------
\* The files, clicks and editor entries the user can supply.

\* Sizes (width, height) of the decodable image files on disk.
SizeTable == << <<1000, 800>>, <<700, 800>>, <<1200, 400>>,
                <<100, 100>>, <<640, 480>> >>

Min(a, b) == IF a <= b THEN a ELSE b

\* kind "image": decodes.  "unidentified": Image.open raises.  "truncated":
\* Image.open reads the header, every decode (Image.load) raises.
ImageFiles ==
    { [id |-> i, kind |-> "image", w |-> SizeTable[i][1], h |-> SizeTable[i][2]] :
        i \in 1..Min(NumSizes, Len(SizeTable)) }
    \cup { [id |-> 90, kind |-> "unidentified", w |-> 0, h |-> 0],
           [id |-> 91, kind |-> "truncated", w |-> 800, h |-> 600] }

\* Logo files: with an alpha channel, without one (paste with the logo as its
\* own mask raises), and not an image.
LogoFiles ==
    { [id |-> 80, kind |-> "rgba", w |-> 200, h |-> 160],
      [id |-> 81, kind |-> "rgb", w |-> 200, h |-> 160],
      [id |-> 82, kind |-> "unidentified", w |-> 0, h |-> 0] }

\* Canvas points (event.x, event.y) of a click.
ClickTable == << <<300, 200>>, <<0, 0>>, <<100, 150>>, <<400, 0>>, <<125, 390>> >>

Clicks == { ClickTable[i] : i \in 1..Min(NumClicks, Len(ClickTable)) }

\* Contents of the text entry, as sequences of characters.
Texts == { <<>>, <<" ">>, <<"H", "I">> }

\* Contents of the font-size spinbox, as sequences of characters.
FontSizeEntries == { <<"1", "2">>, <<"x">> }

\* Values of the font-family combobox.
FontFamilies == { "Arial", "Nope" }

\* Colours the colour chooser can return.
Colors == { "#000000", "#ff0000" }

----------------------------------------------------------------------------
\* str.strip() and int(str).

IsSpace(c) == c = " "

RECURSIVE lstrip(_)
lstrip(t) == IF t # <<>> /\ IsSpace(Head(t)) THEN lstrip(Tail(t)) ELSE t

RECURSIVE rstrip(_)
rstrip(t) ==
    IF t # <<>> /\ IsSpace(t[Len(t)]) THEN rstrip(SubSeq(t, 1, Len(t) - 1)) ELSE t

strip(t) == rstrip(lstrip(t))

Digits == [c \in {"0", "1", "2", "3", "4", "5", "6", "7", "8", "9"} |->
             CASE c = "0" -> 0 [] c = "1" -> 1 [] c = "2" -> 2 [] c = "3" -> 3
               [] c = "4" -> 4 [] c = "5" -> 5 [] c = "6" -> 6 [] c = "7" -> 7
               [] c = "8" -> 8 [] c = "9" -> 9]

IsNumber(t) == t # <<>> /\ \A i \in 1..Len(t) : t[i] \in DOMAIN Digits

RECURSIVE ParseDigits(_)
ParseDigits(t) ==
    IF t = <<>> THEN 0
    ELSE 10 * ParseDigits(SubSeq(t, 1, Len(t) - 1)) + Digits[t[Len(t)]]

\* try: int(self.font_size.get()) except ValueError: 36
font_size_of(entry) == IF IsNumber(entry) THEN ParseDigits(entry) ELSE FallbackFontSize

----------------------------------------------------------------------------
\* Fonts.

\* findSystemFonts(): the installed font files, in enumeration order.
SystemFonts == << "DejaVuSans.ttf", "arialbd.ttf", "arial.ttf" >>

\* font_name.lower() in os.path.basename(font_path).lower()
NameInFile(font_name, file) ==
    \/ font_name = ""
    \/ font_name = "Arial" /\ file \in {"arialbd.ttf", "arial.ttf"}

NoFont == "None"

get_font_path(font_name) ==
    IF \E i \in 1..Len(SystemFonts) : NameInFile(font_name, SystemFonts[i])
    THEN SystemFonts[CHOOSE i \in 1..Len(SystemFonts) :
                       /\ NameInFile(font_name, SystemFonts[i])
                       /\ \A j \in 1..(i - 1) : ~NameInFile(font_name, SystemFonts[j])]
    ELSE NoFont

\* try: ImageFont.truetype(font_path, font_size) except: ImageFont.load_default()
load_font(font_path, font_size) ==
    IF font_path = NoFont THEN [path |-> "default", size |-> 0]
    ELSE [path |-> font_path, size |-> font_size]

\* font.getbbox(text) = (left, top, right, bottom): a deterministic measure in
\* which the top of the box lies below the drawing origin.
getbbox(font, text) ==
    IF font.path = "default" THEN << 0, 0, 6 * Len(text), 11 >>
    ELSE << 0, font.size \div 4, Len(text) * (font.size \div 2), font.size >>

----------------------------------------------------------------------------
\* The preview and the scale factors.

\* round_aspect of Image.thumbnail, for the width: of floor and ceil of
\* ymax * w / h, the one whose n / ymax is nearer to w / h (floor on a tie),
\* at least 1.
RoundWidth(w, h, ymax) ==
    LET lo == (ymax * w) \div h
        hi == IF (ymax * w) % h = 0 THEN lo ELSE lo + 1
        errLo == Abs(w * ymax - lo * h)
        errHi == Abs(w * ymax - hi * h)
    IN  Max(IF errLo <= errHi THEN lo ELSE hi, 1)

\* round_aspect of Image.thumbnail, for the height: of floor and ceil of
\* xmax * h / w, the one whose xmax / n is nearer to w / h (floor on a tie,
\* and a floor of 0 wins), at least 1.
RoundHeight(w, h, xmax) ==
    LET lo == (xmax * h) \div w
        hi == IF (xmax * h) % w = 0 THEN lo ELSE lo + 1
        errLo == Abs(w * lo - xmax * h) * hi
        errHi == Abs(w * hi - xmax * h) * lo
    IN  Max(IF lo = 0 \/ errLo <= errHi THEN lo ELSE hi, 1)

\* img_copy.thumbnail((canvas_width, canvas_height)): the size the copy is
\* shrunk to, aspect ratio preserved, never enlarged.
thumbnail(w, h, xmax, ymax) ==
    IF xmax >= w /\ ymax >= h THEN << w, h >>
    ELSE IF xmax * h >= ymax * w THEN << RoundWidth(w, h, ymax), ymax >>
    ELSE << xmax, RoundHeight(w, h, xmax) >>

\* Image.load() on the bitmap object (called by Image.copy): whether it raises.
load(img) == [raised |-> img.data = "undecodable"]

\* get_resized_image_for_preview(img) on session S: raises in img.copy(), or
\* stores the scale factors and returns the preview bitmap.
get_resized_image_for_preview(S, img) ==
    IF load(img).raised THEN [raised |-> TRUE, S |-> S, preview |-> None]
    ELSE LET size == thumbnail(img.w, img.h, CanvasWidth, CanvasHeight)
         IN  [raised |-> FALSE,
              S |-> [S EXCEPT !.scale_x = Fraction(img.w, size[1]),
                              !.scale_y = Fraction(img.h, size[2])],
              preview |-> [copy(img) EXCEPT !.w = size[1], !.h = size[2]]]

\* update_preview()
update_preview(S) ==
    IF S.watermarked_image # None
    THEN LET r == get_resized_image_for_preview(S, S.watermarked_image)
         IN  [r.S EXCEPT !.preview_image = r.preview]
    ELSE S

----------------------------------------------------------------------------
\* The session as a record, and the handlers as functions of it.

Cur == [original_image |-> original_image, preview_image |-> preview_image,
        watermarked_image |-> watermarked_image,
        scale_x |-> scale_x, scale_y |-> scale_y,
        last_click_x |-> last_click_x, last_click_y |-> last_click_y,
        text_color |-> text_color]

\* __init__
InitSession == [original_image |-> None, preview_image |-> None,
                watermarked_image |-> None,
                scale_x |-> Fraction(1, 1), scale_y |-> Fraction(1, 1),
                last_click_x |-> 0, last_click_y |-> 0,
                text_color |-> "#000000"]

\* on_canvas_click(event)
on_canvas_click(S, x, y) ==
    [S |-> [S EXCEPT !.last_click_x = x, !.last_click_y = y], outcome |-> "Clicked"]

\* Image.open(file_path): the lazily opened bitmap object.
open(file) ==
    [file |-> file.id, w |-> file.w, h |-> file.h,
     data |-> IF file.kind = "truncated" THEN "undecodable" ELSE "decoded",
     marks |-> <<>>]

\* upload_image(), the dialog having returned `file` (or "" when cancelled).
upload_image(S, file, cancelled) ==
    IF cancelled THEN [S |-> S, outcome |-> "NoImageSelected"]
    ELSE IF file.kind = "unidentified" THEN [S |-> S, outcome |-> "UnreadableImage"]
    ELSE LET S1 == [S EXCEPT !.original_image = open(file)]
             r == get_resized_image_for_preview(S1, open(file))
         IN  IF r.raised THEN [S |-> S1, outcome |-> "UnreadableImage"]
             ELSE [S |-> [r.S EXCEPT !.preview_image = r.preview], outcome |-> "Loaded"]

\* Whether a click is taken as registered: last_click_x > 0 and last_click_y > 0.
has_click(S) == S.last_click_x > 0 /\ S.last_click_y > 0

\* The click in original-image space: the x padding subtracted, each axis
\* multiplied by its scale factor and truncated.
to_original_space(S) ==
    << IntOfProduct(S.last_click_x - ClickPaddingX, S.scale_x),
       IntOfProduct(S.last_click_y, S.scale_y) >>

\* text_position without the max(..., 0) on either axis.
text_position_unclamped(S, text_width, text_height, width, height) ==
    IF has_click(S)
    THEN << to_original_space(S)[1] - text_width,
            to_original_space(S)[2] - text_height >>
    ELSE << width - text_width - default_margin_x,
            height - text_height - default_margin_y >>

\* The position of a text box of text_width x text_height on an image of
\* width x height (apply_text_watermark).
text_position(S, text_width, text_height, width, height) ==
    IF has_click(S)
    THEN << Max(to_original_space(S)[1] - text_width, 0),
            Max(to_original_space(S)[2] - text_height, 0) >>
    ELSE << width - text_width - default_margin_x,
            height - text_height - default_margin_y >>

\* The position of a logo of logo_width x logo_height on an image of
\* width x height (apply_logo_watermark).
logo_position(S, logo_width, logo_height, width, height) ==
    IF has_click(S)
    THEN << to_original_space(S)[1] - logo_width \div 2,
            to_original_space(S)[2] - logo_height \div 2 >>
    ELSE << width - logo_width - default_margin_x,
            height - logo_height - default_margin_y >>

\* What draw.text / Image.paste leaves on a bitmap.
Mark(kind, position, w, h, content, font, fill, logo) ==
    [kind |-> kind, x |-> position[1], y |-> position[2], w |-> w, h |-> h,
     content |-> content, font |-> font, fill |-> fill, logo |-> logo]

\* The working copy started from the previous result when there is one.
working_copy_of_result(S) ==
    copy(IF S.watermarked_image # None THEN S.watermarked_image ELSE S.original_image)

\* watermark_image = self.original_image.copy(): the bitmap a watermark is
\* drawn on.
working_copy(S) == copy(S.original_image)

\* The body of apply_text_watermark under "if text.strip():": copy the source,
\* measure the text, place it, draw it, store the result, update the preview.
draw_text_watermark(S, text, font_family, font_size) ==
    IF load(S.original_image).raised THEN [S |-> S, outcome |-> "Raised"]
    ELSE LET watermark_image == working_copy(S)
             font == load_font(get_font_path(font_family), font_size_of(font_size))
             text_bbox == getbbox(font, text)
             text_width == text_bbox[3] - text_bbox[1]
             text_height == text_bbox[4] - text_bbox[2]
             position == text_position(S, text_width, text_height,
                                       watermark_image.w, watermark_image.h)
             drawn == [watermark_image EXCEPT !.marks =
                         Append(@, Mark("text", position, text_width, text_height,
                                        text, font, S.text_color, 0))]
         IN  [S |-> update_preview([S EXCEPT !.watermarked_image = drawn]),
              outcome |-> "Watermarked"]

\* apply_text_watermark without the "if text.strip():" test.
apply_text_watermark_draws_blank(S, text, font_family, font_size) ==
    IF S.original_image = None THEN [S |-> S, outcome |-> "NoImageLoaded"]
    ELSE draw_text_watermark(S, text, font_family, font_size)

\* apply_text_watermark resetting the click to (0, 0) once it has drawn.
apply_text_watermark_clears_click(S, text, font_family, font_size) ==
    IF S.original_image = None THEN [S |-> S, outcome |-> "NoImageLoaded"]
    ELSE IF strip(text) = <<>> THEN [S |-> S, outcome |-> "EmptyText"]
    ELSE LET r == draw_text_watermark(S, text, font_family, font_size)
         IN  IF r.outcome = "Watermarked"
             THEN [S |-> [r.S EXCEPT !.last_click_x = 0, !.last_click_y = 0],
                   outcome |-> r.outcome]
             ELSE r

\* apply_text_watermark(), the editor holding text, font_family and font_size.
apply_text_watermark(S, text, font_family, font_size) ==
    IF S.original_image = None THEN [S |-> S, outcome |-> "NoImageLoaded"]
    ELSE IF strip(text) = <<>> THEN [S |-> S, outcome |-> "EmptyText"]
    ELSE draw_text_watermark(S, text, font_family, font_size)

\* apply_logo_watermark(logo_image)
apply_logo_watermark(S, logo) ==
    IF S.original_image = None THEN [S |-> S, outcome |-> "NoImageLoaded"]
    ELSE IF load(S.original_image).raised THEN [S |-> S, outcome |-> "Raised"]
    ELSE LET watermark_image == working_copy(S)
             base_width == watermark_image.w \div LogoWidthDivisor
             hsize == (logo.h * base_width) \div logo.w
             position == logo_position(S, base_width, hsize,
                                       watermark_image.w, watermark_image.h)
             pasted == [watermark_image EXCEPT !.marks =
                          Append(@, Mark("logo", position, base_width, hsize,
                                         <<>>, [path |-> "", size |-> 0], "", logo.id))]
         IN  IF logo.kind # "rgba" THEN [S |-> S, outcome |-> "Raised"]
             ELSE [S |-> update_preview([S EXCEPT !.watermarked_image = pasted]),
                   outcome |-> "Watermarked"]

\* add_logo_watermark(), the dialog having returned `logo` (or "" when cancelled).
add_logo_watermark(S, logo, cancelled) ==
    IF cancelled THEN [S |-> S, outcome |-> "NoLogoSelected"]
    ELSE IF S.original_image = None THEN [S |-> S, outcome |-> "NoImageLoaded"]
    ELSE IF logo.kind = "unidentified" THEN [S |-> S, outcome |-> "Raised"]
    ELSE apply_logo_watermark(S, logo)

\* save_image(): whether the dialog returned a path, and whether the write works.
save_image(S, has_path, writable) ==
    IF S.watermarked_image # None
    THEN IF has_path
         THEN IF writable THEN [S |-> S, outcome |-> "Saved"]
              ELSE [S |-> S, outcome |-> "WriteFailure"]
         ELSE [S |-> S, outcome |-> "SaveCancelled"]
    ELSE [S |-> S, outcome |-> "NoResultToSave"]

\* choose_text_color(): the colour the chooser returned (none when cancelled).
choose_text_color(S, color, cancelled) ==
    IF cancelled THEN [S |-> S, outcome |-> "ColorKept"]
    ELSE [S |-> [S EXCEPT !.text_color = color], outcome |-> "ColorChosen"]

----------------------------------------------------------------------------
\* The state machine.

NoArgs == [text |-> <<>>, font_family |-> "", font_size |-> <<>>]

Install(S) ==
    /\ original_image' = S.original_image
    /\ preview_image' = S.preview_image
    /\ watermarked_image' = S.watermarked_image
    /\ scale_x' = S.scale_x
    /\ scale_y' = S.scale_y
    /\ last_click_x' = S.last_click_x
    /\ last_click_y' = S.last_click_y
    /\ text_color' = S.text_color

\* lastOp: the operation just run, its outcome and its editor entries; repeat
\* holds when it is a text watermark drawn right after another one drawn with
\* the same entries.
Record(name, r, args) ==
    lastOp' = [name |-> name, outcome |-> r.outcome, args |-> args,
               repeat |-> /\ name = "text" /\ r.outcome = "Watermarked"
                          /\ lastOp.name = "text" /\ lastOp.outcome = "Watermarked"
                          /\ lastOp.args = args]

Init ==
    /\ original_image = InitSession.original_image
    /\ preview_image = InitSession.preview_image
    /\ watermarked_image = InitSession.watermarked_image
    /\ scale_x = InitSession.scale_x
    /\ scale_y = InitSession.scale_y
    /\ last_click_x = InitSession.last_click_x
    /\ last_click_y = InitSession.last_click_y
    /\ text_color = InitSession.text_color
    /\ loaded = None
    /\ lastOp = [name |-> "init", outcome |-> "", args |-> NoArgs, repeat |-> FALSE]

OnCanvasClick ==
    \E p \in Clicks :
        \E r \in { on_canvas_click(Cur, p[1], p[2]) } :
            Install(r.S) /\ Record("click", r, NoArgs) /\ UNCHANGED loaded

UploadImage ==
    \E file \in ImageFiles, cancelled \in BOOLEAN :
        \E r \in { upload_image(Cur, file, cancelled) } :
            /\ Install(r.S)
            /\ Record("load", r, NoArgs)
            /\ loaded' = IF r.outcome = "Loaded" THEN open(file) ELSE loaded

\* The editor's "Apply Text" button.  Its command passes an argument the method
\* does not take (line 434); the action models the call of
\* apply_text_watermark() itself, the operation of the session's interface.
ApplyTextWatermark ==
    \E text \in Texts, font_family \in FontFamilies, font_size \in FontSizeEntries :
        \E r \in { apply_text_watermark(Cur, text, font_family, font_size) } :
            /\ Install(r.S)
            /\ Record("text", r, [text |-> text, font_family |-> font_family,
                                  font_size |-> font_size])
            /\ UNCHANGED loaded

AddLogoWatermark ==
    \E logo \in LogoFiles, cancelled \in BOOLEAN :
        \E r \in { add_logo_watermark(Cur, logo, cancelled) } :
            Install(r.S) /\ Record("logo", r, NoArgs) /\ UNCHANGED loaded

SaveImage ==
    \E has_path \in BOOLEAN, writable \in BOOLEAN :
        \E r \in { save_image(Cur, has_path, writable) } :
            Install(r.S) /\ Record("save", r, NoArgs) /\ UNCHANGED loaded

ChooseTextColor ==
    \E color \in Colors, cancelled \in BOOLEAN :
        \E r \in { choose_text_color(Cur, color, cancelled) } :
            Install(r.S) /\ Record("color", r, NoArgs) /\ UNCHANGED loaded

Next ==
    \/ OnCanvasClick
    \/ UploadImage
    \/ ApplyTextWatermark
    \/ AddLogoWatermark
    \/ SaveImage
    \/ ChooseTextColor

Spec == Init /\ [][Next]_vars

----------------------------------------------------------------------------
\* Properties.

\* The last operation drew a watermark (text or logo) and stored the result.
Applied == lastOp.name \in {"text", "logo"} /\ lastOp.outcome = "Watermarked"

\* The top-left corner at which the current result's watermark was drawn.
Placement(img) == << img.marks[Len(img.marks)].x, img.marks[Len(img.marks)].y >>

\* The fields C4 and C5 speak of: source, scale factors, click point, result.
core == <<original_image, scale_x, scale_y, last_click_x, last_click_y,
          watermarked_image>>

\* Lemma: a watermark operation, whatever its outcome, leaves the source as it was.
ApplyKeepsSource ==
    [][lastOp'.name \in {"text", "logo"} => original_image' = original_image]_vars

\* C1: after any sequence of operations, once a load has succeeded, the stored
\* source image is the bitmap the most recent successful load established.
C1_SourceIsLastLoaded == loaded # None => original_image = loaded

\* C2: after every successful watermark application the click point is absent
\* (no click is registered any more).
C2_ClickClearedAfterApply == Applied => ~has_click(Cur)

\* C3: a save that follows a successful load directly, with no watermark call
\* in between, fails with NoResultToSave.
C3_SaveRightAfterLoadFails ==
    [][(lastOp.name = "load" /\ lastOp.outcome = "Loaded" /\ lastOp'.name = "save")
         => lastOp'.outcome = "NoResultToSave"]_vars

\* C4: while no source image is loaded, a click, apply-text, apply-logo or save
\* changes none of source, click point, scale factors and result.
C4_NoOpWhileEmpty ==
    [][(original_image = None /\ lastOp'.name \in {"click", "text", "logo", "save"})
         => UNCHANGED core]_vars

\* C5: a load that fails with UnreadableImage leaves source, scale factors,
\* click point and result as they were before the call.
C5_FailedLoadKeepsState ==
    [][(lastOp'.name = "load" /\ lastOp'.outcome = "UnreadableImage")
         => UNCHANGED core]_vars

\* C6: right after a successful load the click point is absent.
C6_LoadClearsClick ==
    (lastOp.name = "load" /\ lastOp.outcome = "Loaded") => ~has_click(Cur)

\* C7: a click at preview coordinate (0,0), used as the anchor of the text
\* watermark applied next, yields the placement (0,0).
C7_ClickAtOriginPlacesAtOrigin ==
    [][(/\ lastOp.name = "click" /\ last_click_x = 0 /\ last_click_y = 0
        /\ lastOp'.name = "text" /\ lastOp'.outcome = "Watermarked")
         => Placement(watermarked_image') = <<0, 0>>]_vars

\* C8: with the preview of the loaded image on the canvas, a click at the
\* centre of the preview (the canvas point (300,200)) converts to within one
\* pixel per axis of the centre of the original image.
C8_CentreMapsToCentre ==
    (/\ lastOp.name = "click"
     /\ original_image # None /\ original_image = loaded
     /\ preview_image.file = original_image.file
     /\ last_click_x = CanvasCentreX /\ last_click_y = CanvasCentreY)
      => /\ Abs(2 * to_original_space(Cur)[1] - original_image.w) <= 2
         /\ Abs(2 * to_original_space(Cur)[2] - original_image.h) <= 2

C10_RepeatedTextIdentical ==
    [][(/\ lastOp.name = "text" /\ lastOp.outcome = "Watermarked"
        /\ lastOp'.name = "text" /\ lastOp'.outcome = "Watermarked"
        /\ lastOp'.args = lastOp.args)
         => /\ watermarked_image' = watermarked_image
            /\ Placement(watermarked_image') = Placement(watermarked_image)]_vars

\* The same text watermark was drawn twice in a row with a click registered
\* before the first, at a placement other than the default one.
C10_Witness ==
    /\ lastOp.name = "text" /\ lastOp.repeat
    /\ has_click(Cur)
    /\ Placement(watermarked_image) #
         << watermarked_image.w - watermarked_image.marks[1].w - default_margin_x,
            watermarked_image.h - watermarked_image.marks[1].h - default_margin_y >>

\* C11 as stated: the placement of every watermark drawn, by any path (text or
\* logo, with a click or by default), has x >= 0 and y >= 0.
C11_PlacementNeverNegative ==
    Applied => /\ Placement(watermarked_image)[1] >= 0
               /\ Placement(watermarked_image)[2] >= 0

\* C11 as amended: the placement of a text watermark anchored at a registered
\* click has x >= 0 and y >= 0.
C11_TextClickPlacementClamped ==
    (lastOp.name = "text" /\ lastOp.outcome = "Watermarked" /\ has_click(Cur))
      => /\ Placement(watermarked_image)[1] >= 0
         /\ Placement(watermarked_image)[2] >= 0

\* A text watermark was drawn at a click whose converted anchor lies left of
\* the image (x below the padding), so that the clamp to 0 acted.
C11_Witness ==
    /\ lastOp.name = "text" /\ lastOp.outcome = "Watermarked"
    /\ has_click(Cur)
    /\ to_original_space(Cur)[1] < 0
    /\ Placement(watermarked_image)[1] = 0

\* C12: after a successful apply-text or apply-logo, the current result is the
\* source image with exactly one watermark on it, the one just applied:
\* watermarks of earlier applies do not accumulate.
C12_ResultIsSourcePlusLastWatermark ==
    Applied =>
      /\ Len(watermarked_image.marks) = 1
      /\ [watermarked_image EXCEPT !.marks = <<>>] = original_image
      /\ watermarked_image.marks[1].kind = lastOp.name
      /\ lastOp.name = "text" => watermarked_image.marks[1].content = lastOp.args.text

\* A text watermark was applied right after another successful one on the same
\* image, and the result carries a single watermark.
C12_Witness ==
    /\ lastOp.name = "text" /\ lastOp.outcome = "Watermarked" /\ lastOp.repeat
    /\ original_image # None
    /\ Len(watermarked_image.marks) = 1

====
